---- MODULE Spec2Model ----
(***************************************************************************)
(* WaypointPlanningOperator (pylot/planning/waypoint_planning_operator.py) *)
(* as a state machine.  One step of on_watermark is one planning cycle.    *)
(*                                                                         *)
(* Units.  Locations are points of a line, in metres.  Speeds are in       *)
(* hundredths of a metre per second, so the test forward_speed < 0.08 of   *)
(* the source reads forward_speed < 8.  A speed factor is in percent, so   *)
(* speed_factor * target_speed is in hundredths of a metre per second.     *)
(***************************************************************************)
EXTENDS Integers, Sequences, FiniteSets

VARIABLES
    watermark_cnt,           \* self._watermark_cnt
    pose_msgs,               \* self._pose_msgs, a deque
    traffic_light_msgs,      \* self._traffic_light_msgs, a deque
    prediction_msgs,         \* self._prediction_msgs, a deque
    last_stop_ego_location,  \* self._last_stop_ego_location
    waypoints,               \* self._waypoints
    map,                     \* self._map
    goal_location,           \* self._goal_location
    waypoints_stream,        \* what was sent on waypoints_stream, oldest first
    sent_waypoints,          \* the Waypoints carried by the latest WaypointsMessage
    raised,                  \* the exception on_watermark let escape, if any
    had_map_and_goal,        \* history: a completed cycle ran with map and goal
    cycle                    \* what the latest call of on_watermark did

vars == <<watermark_cnt, pose_msgs, traffic_light_msgs, prediction_msgs,
          last_stop_ego_location, waypoints, map, goal_location,
          waypoints_stream, sent_waypoints, raised, had_map_and_goal, cycle>>

(***************************************************************************)
(* Bounds of the model.                                                    *)
(***************************************************************************)
MaxWatermarks == 10
MaxQueue == 1

(***************************************************************************)
(* Program constants and configuration flags.                              *)
(***************************************************************************)
RECOMPUTE_WAYPOINT_EVERY_N_WATERMARKS == 5
StopSpeedThreshold == 8
min_pid_steer_waypoint_distance == 5
num_waypoints_ahead == 2
target_speed_flag == 10

(***************************************************************************)
(* Values.                                                                 *)
(***************************************************************************)
None == -1
Locations == {0, 6, 12}
ForwardSpeeds == {5, 8}
GoalLocations == {15}
MapWaypoints == <<3, 6, 9, 12, 15>>
NoMap == "None"
Maps == {"route", "no_route"}
SpeedFactors == {0, 50, 100}
ObstacleKinds == {"ObstaclesMessage", "PredictionMessage", "Other"}

PoseMessages == [forward_speed : ForwardSpeeds, location : Locations]
\* an obstacle or a prediction: a transform and a predicted trajectory
ObstaclePrediction(transform, trajectory) ==
    [transform |-> transform, predicted_trajectory |-> trajectory]
ObstacleLists ==
    {<<>>, <<ObstaclePrediction(1, <<2, 3>>), ObstaclePrediction(4, <<>>)>>}
\* the obstacle messages of a payload set: an ObstaclesMessage has obstacles,
\* a PredictionMessage has predictions, any other message has neither
ObstacleMessagesOf(lists) ==
    [kind : {"ObstaclesMessage"}, obstacles : lists, predictions : {<<>>}]
    \cup [kind : {"PredictionMessage"}, obstacles : {<<>>}, predictions : lists]
    \cup [kind : {"Other"}, obstacles : {<<>>}, predictions : {<<>>}]
ObstacleMessages == ObstacleMessagesOf({<<>>})
TrafficLightMessage == [obstacles |-> <<>>]

NoError == "none"
NoWaypoints == [is_none |-> TRUE, waypoints |-> <<>>]
EmptyWaypoints == [waypoints |-> <<>>, target_speeds |-> <<>>]

WaypointsMessage(timestamp) == [type |-> "WaypointsMessage", timestamp |-> timestamp]
WatermarkMessage(timestamp) == [type |-> "WatermarkMessage", timestamp |-> timestamp]

NoCycle ==
    [outcome |-> "none", timestamp |-> None, forward_speed |-> None,
     location |-> None, distance |-> None, first_recompute |-> FALSE,
     periodic_recompute |-> FALSE, policy_distance |-> None,
     speed_factor |-> None, target_speed |-> None,
     popped |-> <<>>, obstacles |-> <<>>, predictions_after |-> <<>>,
     calls |-> <<>>, previous |-> "none"]

(***************************************************************************)
(* Location.distance                                                       *)
(***************************************************************************)
Distance(a, b) == IF a >= b THEN a - b ELSE b - a

(***************************************************************************)
(* The path store, pylot.planning.waypoints.Waypoints.                     *)
(***************************************************************************)
RECURSIVE SelectAhead(_, _)
SelectAhead(path, location) ==
    IF path = <<>> THEN <<>>
    ELSE IF Head(path) > location THEN path
    ELSE SelectAhead(Tail(path), location)

\* recompute_waypoints(map, location, goal): the route from location to goal,
\* empty when the map has none.
recompute_waypoints(m, location, goal) ==
    IF m = "route"
    THEN SelectSeq(SelectAhead(MapWaypoints, location), LAMBDA p : p <= goal)
    ELSE <<>>

\* remove_completed: drop the points the vehicle has passed.
remove_completed(path, location) == SelectAhead(path, location)

\* get_vector / get_angle: the points at least min_distance ahead.
RECURSIVE LookaheadPoints(_, _, _)
LookaheadPoints(path, location, min_distance) ==
    IF path = <<>> THEN <<>>
    ELSE IF Distance(Head(path), location) >= min_distance THEN path
    ELSE LookaheadPoints(Tail(path), location, min_distance)

LookaheadFails(path, location, min_distance) ==
    LookaheadPoints(path, location, min_distance) = <<>>

Min(a, b) == IF a <= b THEN a ELSE b

\* slice_waypoints(start_index, end_index, target_speed)
slice_waypoints(path, start_index, end_index, target_speed) ==
    LET slice == SubSeq(path, start_index + 1, Min(end_index, Len(path)))
    IN [waypoints |-> slice,
        target_speeds |-> [i \in 1..Len(slice) |-> target_speed]]

(***************************************************************************)
(* Construction: __init__ and PlanningOperator.__init__.                   *)
(***************************************************************************)
Init ==
    /\ watermark_cnt = 0
    /\ pose_msgs = <<>>
    /\ traffic_light_msgs = <<>>
    /\ prediction_msgs = <<>>
    /\ last_stop_ego_location = None
    /\ waypoints = NoWaypoints
    /\ map = NoMap
    /\ goal_location \in {None} \cup GoalLocations
    /\ waypoints_stream = <<>>
    /\ sent_waypoints = EmptyWaypoints
    /\ raised = NoError
    /\ had_map_and_goal = FALSE
    /\ cycle = NoCycle

(***************************************************************************)
(* The callbacks of PlanningOperator that fill the queues and set the map  *)
(* and the goal.                                                           *)
(***************************************************************************)
on_pose_update ==
    /\ raised = NoError
    /\ Len(pose_msgs) < MaxQueue
    /\ \E msg \in PoseMessages : pose_msgs' = Append(pose_msgs, msg)
    /\ UNCHANGED <<watermark_cnt, traffic_light_msgs, prediction_msgs,
                   last_stop_ego_location, waypoints, map, goal_location,
                   waypoints_stream, sent_waypoints, raised,
                   had_map_and_goal, cycle>>

on_traffic_light_update ==
    /\ raised = NoError
    /\ Len(traffic_light_msgs) < MaxQueue
    /\ traffic_light_msgs' = Append(traffic_light_msgs, TrafficLightMessage)
    /\ UNCHANGED <<watermark_cnt, pose_msgs, prediction_msgs,
                   last_stop_ego_location, waypoints, map, goal_location,
                   waypoints_stream, sent_waypoints, raised,
                   had_map_and_goal, cycle>>

on_prediction_update ==
    /\ raised = NoError
    /\ Len(prediction_msgs) < MaxQueue
    /\ \E msg \in ObstacleMessages : prediction_msgs' = Append(prediction_msgs, msg)
    /\ UNCHANGED <<watermark_cnt, pose_msgs, traffic_light_msgs,
                   last_stop_ego_location, waypoints, map, goal_location,
                   waypoints_stream, sent_waypoints, raised,
                   had_map_and_goal, cycle>>

on_global_trajectory ==
    /\ raised = NoError
    /\ goal_location = None
    /\ goal_location' \in GoalLocations
    /\ UNCHANGED <<watermark_cnt, pose_msgs, traffic_light_msgs, prediction_msgs,
                   last_stop_ego_location, waypoints, map,
                   waypoints_stream, sent_waypoints, raised,
                   had_map_and_goal, cycle>>

on_opendrive_map ==
    /\ raised = NoError
    /\ map = NoMap
    /\ map' \in Maps
    /\ UNCHANGED <<watermark_cnt, pose_msgs, traffic_light_msgs, prediction_msgs,
                   last_stop_ego_location, waypoints, goal_location,
                   waypoints_stream, sent_waypoints, raised,
                   had_map_and_goal, cycle>>

(***************************************************************************)
(* on_watermark, piece by piece.                                           *)
(***************************************************************************)
IsFullStop_Inclusive(forward_speed) == forward_speed <= StopSpeedThreshold

\* line 47: the vehicle counts as fully stopped
IsFullStop(forward_speed) == forward_speed < StopSpeedThreshold

DistanceSinceLastFullStop_NoReset(pose_msg, last_stop) ==
    IF last_stop # None THEN Distance(pose_msg.location, last_stop) ELSE 0

\* lines 47-55: distance_since_last_full_stop
DistanceSinceLastFullStop(pose_msg, last_stop) ==
    IF IsFullStop(pose_msg.forward_speed) THEN 0
    ELSE IF last_stop # None THEN Distance(pose_msg.location, last_stop)
    ELSE 0

LastStopAfter_EveryCycle(pose_msg, last_stop) == pose_msg.location

\* lines 47-49: self._last_stop_ego_location after the update
LastStopAfter(pose_msg, last_stop) ==
    IF IsFullStop(pose_msg.forward_speed) THEN pose_msg.location ELSE last_stop

IsKnownObstaclesMsg_Any(obstacles_msg) == obstacles_msg.kind \in ObstacleKinds

\* lines 58-65: the obstacle message is of a known class
IsKnownObstaclesMsg(obstacles_msg) ==
    obstacles_msg.kind \in {"ObstaclesMessage", "PredictionMessage"}

\* line 67: not self._waypoints
NotWaypoints(w) == w.is_none

HasMapAndGoal_MapOnly(m, goal) == m # NoMap

HasMapAndGoal_GoalOnly(m, goal) == goal # None

HasMapAndGoal_Either(m, goal) == m # NoMap \/ goal # None

\* line 68: map and goal are both there
HasMapAndGoal(m, goal) == m # NoMap /\ goal # None

PeriodicRecomputeDue_OffByOne(cnt) ==
    cnt % RECOMPUTE_WAYPOINT_EVERY_N_WATERMARKS = 1

\* lines 83-84: the periodic recomputation is due
\* (self._recompute_waypoints is set by PlanningOperator.__init__)
PeriodicRecomputeDue(cnt) == cnt % RECOMPUTE_WAYPOINT_EVERY_N_WATERMARKS = 0

ExhaustedTargetSpeed_Nominal == target_speed_flag

\* line 107: the target speed when the lookahead found no waypoint
ExhaustedTargetSpeed == 0

\* line 79: Waypoints(deque(), deque())
NoTrajectoryWaypoints == EmptyWaypoints

TargetSpeed_Unscaled(speed_factor) == speed_factor

TargetSpeed_StaysZero(speed_factor) == 0

\* line 99
TargetSpeed(speed_factor) == speed_factor * target_speed_flag

SendNoTrajectory_NoMarker(stream, timestamp) ==
    stream \o <<WaypointsMessage(timestamp)>>

\* lines 78-80: the two sends of the branch without map or goal
SendNoTrajectory(stream, timestamp) ==
    stream \o <<WaypointsMessage(timestamp), WatermarkMessage(timestamp)>>

SendHeadWaypoints_MarkerFirst(stream, timestamp) ==
    stream \o <<WatermarkMessage(timestamp), WaypointsMessage(timestamp)>>

\* lines 110-111: the two sends that end a planning cycle
SendHeadWaypoints(stream, timestamp) ==
    stream \o <<WaypointsMessage(timestamp), WatermarkMessage(timestamp)>>

\* lines 67-72 and 83-88: self._waypoints.waypoints once the path was
\* initialized if need be, recomputed if due, and pruned
PlannedPath(w, cnt, m, location, goal) ==
    LET initial  == IF NotWaypoints(w)
                    THEN recompute_waypoints(m, location, goal)
                    ELSE w.waypoints
        periodic == IF PeriodicRecomputeDue(cnt)
                    THEN recompute_waypoints(m, location, goal)
                    ELSE initial
    IN remove_completed(periodic, location)

\* deque.pop(): the newest item
popleft_FromRight(deque) ==
    [item |-> deque[Len(deque)], rest |-> SubSeq(deque, 1, Len(deque) - 1)]

\* lines 45, 56, 57: deque.popleft() of a deque that is not empty
popleft(deque) == [item |-> Head(deque), rest |-> Tail(deque)]

NextWatermarkCnt_Unchanged(cnt) == cnt

\* line 44: self._watermark_cnt += 1
NextWatermarkCnt(cnt) == cnt + 1

\* ego_transform * transform, on a line
Compose(ego_transform, transform) == ego_transform + transform

predictions_to_world_coordinates_PoseOnly(ego_transform, obstacle_predictions) ==
    [i \in 1..Len(obstacle_predictions) |->
        [obstacle_predictions[i] EXCEPT
            !.transform = Compose(ego_transform, @)]]

\* lines 113-122: the list predictions_to_world_coordinates returns
predictions_to_world_coordinates(ego_transform, obstacle_predictions) ==
    [i \in 1..Len(obstacle_predictions) |->
        ObstaclePrediction(
            Compose(ego_transform, obstacle_predictions[i].transform),
            [j \in 1..Len(obstacle_predictions[i].predicted_trajectory) |->
                Compose(ego_transform,
                        obstacle_predictions[i].predicted_trajectory[j])])]

\* lines 115-122: the objects of the list it was given, after the call; the
\* loop assigns to their attributes and the list returned is the list given
PredictionsAfterCall(ego_transform, obstacle_predictions) ==
    predictions_to_world_coordinates(ego_transform, obstacle_predictions)

NormalizesObstacles_Always(obstacles_msg) == TRUE

\* lines 58-62: the message takes the branch of predictions_to_world_coordinates
NormalizesObstacles(obstacles_msg) == obstacles_msg.kind = "PredictionMessage"

\* lines 58-62: obstacles
Obstacles(ego_transform, obstacles_msg) ==
    IF NormalizesObstacles(obstacles_msg)
    THEN predictions_to_world_coordinates(ego_transform, obstacles_msg.predictions)
    ELSE obstacles_msg.obstacles

\* lines 58-62: obstacles_msg.predictions after the branch
PredictionsAfter(ego_transform, obstacles_msg) ==
    IF NormalizesObstacles(obstacles_msg)
    THEN PredictionsAfterCall(ego_transform, obstacles_msg.predictions)
    ELSE obstacles_msg.predictions

\* lines 45-62: the calls up to the obstacles, in order
InputCalls(obstacles_msg) ==
    <<"pose_msgs.popleft", "traffic_light_msgs.popleft", "prediction_msgs.popleft">>
    \o (IF NormalizesObstacles(obstacles_msg)
        THEN <<"predictions_to_world_coordinates">> ELSE <<>>)

\* lines 78-80
NoTrajectoryCalls == <<"send WaypointsMessage", "send WatermarkMessage">>

PlanningCalls_PruneFirst(first, periodic, fails) ==
    <<"remove_completed">>
    \o (IF first THEN <<"recompute_waypoints">> ELSE <<>>)
    \o (IF periodic THEN <<"recompute_waypoints">> ELSE <<>>)
    \o (IF fails THEN <<"get_vector">>
        ELSE <<"get_vector", "get_angle", "stop_for_agents">>)
    \o <<"slice_waypoints", "send WaypointsMessage", "send WatermarkMessage">>

\* lines 67-72 and 83-111: the calls of a planning cycle, in order; get_vector
\* raises when the lookahead fails
PlanningCalls(first, periodic, fails) ==
    (IF first THEN <<"recompute_waypoints">> ELSE <<>>)
    \o (IF periodic THEN <<"recompute_waypoints">> ELSE <<>>)
    \o <<"remove_completed">>
    \o (IF fails THEN <<"get_vector">>
        ELSE <<"get_vector", "get_angle", "stop_for_agents">>)
    \o <<"slice_waypoints", "send WaypointsMessage", "send WatermarkMessage">>

Raise_RolledBack(exception, poses, stop, lights, predictions, cyc) ==
    /\ raised' = exception
    /\ cycle' = [cyc EXCEPT !.outcome = exception]
    /\ UNCHANGED <<pose_msgs, last_stop_ego_location, traffic_light_msgs,
                   prediction_msgs, waypoints, waypoints_stream,
                   sent_waypoints, had_map_and_goal>>

\* An exception leaves on_watermark: what was done up to the raise stays done.
Raise(exception, poses, stop, lights, predictions, cyc) ==
    /\ raised' = exception
    /\ pose_msgs' = poses
    /\ last_stop_ego_location' = stop
    /\ traffic_light_msgs' = lights
    /\ prediction_msgs' = predictions
    /\ cycle' = [cyc EXCEPT !.outcome = exception]
    /\ UNCHANGED <<waypoints, waypoints_stream, sent_waypoints, had_map_and_goal>>

\* lines 42-111: one call of on_watermark, timestamp being the logical time of
\* the barrier.  The history record keeps the messages popped, the obstacles,
\* the calls made on the inputs and the outcome of the cycle before only when
\* observe_inputs is set.
Cycle(observe_inputs) ==
    LET timestamp == watermark_cnt
        cnt == NextWatermarkCnt(watermark_cnt)
        cyc0 == [NoCycle EXCEPT
                    !.timestamp = timestamp,
                    !.previous = IF observe_inputs THEN cycle.outcome ELSE "none"]
    IN
    /\ watermark_cnt' = cnt
    /\ UNCHANGED <<map, goal_location>>
    /\ IF pose_msgs = <<>>
       THEN Raise("IndexError", pose_msgs, last_stop_ego_location,
                  traffic_light_msgs, prediction_msgs, cyc0)
       ELSE
       LET pose == popleft(pose_msgs)
           pose_msg == pose.item
           location == pose_msg.location
           distance_since_last_full_stop ==
               DistanceSinceLastFullStop(pose_msg, last_stop_ego_location)
           stop == LastStopAfter(pose_msg, last_stop_ego_location)
           cyc1 == [cyc0 EXCEPT !.forward_speed = pose_msg.forward_speed,
                                !.location = location,
                                !.distance = distance_since_last_full_stop]
           seen1 == IF observe_inputs
                    THEN [cyc1 EXCEPT !.popped = <<pose_msg>>,
                                      !.calls = <<"pose_msgs.popleft">>]
                    ELSE cyc1
       IN
       IF traffic_light_msgs = <<>>
       THEN Raise("IndexError", pose.rest, stop,
                  traffic_light_msgs, prediction_msgs, seen1)
       ELSE
       LET tl == popleft(traffic_light_msgs)
           seen2 == IF observe_inputs
                    THEN [cyc1 EXCEPT !.popped = <<pose_msg, tl.item>>,
                                      !.calls = <<"pose_msgs.popleft",
                                                  "traffic_light_msgs.popleft">>]
                    ELSE cyc1
       IN
       IF prediction_msgs = <<>>
       THEN Raise("IndexError", pose.rest, stop, tl.rest, prediction_msgs, seen2)
       ELSE
       LET prediction == popleft(prediction_msgs)
           obstacles_msg == prediction.item
           seen3 == IF observe_inputs
                    THEN [cyc1 EXCEPT
                             !.popped = <<pose_msg, tl.item, obstacles_msg>>,
                             !.calls = <<"pose_msgs.popleft",
                                         "traffic_light_msgs.popleft",
                                         "prediction_msgs.popleft">>]
                    ELSE cyc1
       IN
       IF ~IsKnownObstaclesMsg(obstacles_msg)
       THEN Raise("ValueError", pose.rest, stop, tl.rest, prediction.rest, seen3)
       ELSE
       LET cyc4 == IF observe_inputs
                   THEN [seen3 EXCEPT
                            !.obstacles = Obstacles(location, obstacles_msg),
                            !.predictions_after =
                                PredictionsAfter(location, obstacles_msg),
                            !.calls = InputCalls(obstacles_msg)]
                   ELSE cyc1
       IN
       /\ raised' = NoError
       /\ pose_msgs' = pose.rest
       /\ last_stop_ego_location' = stop
       /\ traffic_light_msgs' = tl.rest
       /\ prediction_msgs' = prediction.rest
       /\ had_map_and_goal' =
              (had_map_and_goal \/ (map # NoMap /\ goal_location # None))
       /\ IF NotWaypoints(waypoints) /\ ~HasMapAndGoal(map, goal_location)
          THEN
          /\ waypoints' = waypoints
          /\ waypoints_stream' = SendNoTrajectory(waypoints_stream, timestamp)
          /\ sent_waypoints' = NoTrajectoryWaypoints
          /\ cycle' = [cyc4 EXCEPT !.outcome = "no_trajectory",
                                   !.calls = @ \o NoTrajectoryCalls]
          ELSE
          LET path == PlannedPath(waypoints, cnt, map, location, goal_location)
              fails == LookaheadFails(path, location,
                                      min_pid_steer_waypoint_distance)
              cyc5 == [cyc4 EXCEPT
                          !.first_recompute = NotWaypoints(waypoints),
                          !.periodic_recompute = PeriodicRecomputeDue(cnt),
                          !.calls = @ \o PlanningCalls(
                              NotWaypoints(waypoints),
                              PeriodicRecomputeDue(cnt), fails)]
          IN
          /\ waypoints' = [is_none |-> FALSE, waypoints |-> path]
          /\ waypoints_stream' = SendHeadWaypoints(waypoints_stream, timestamp)
          /\ IF fails
             THEN
             /\ sent_waypoints' = slice_waypoints(
                    path, 0, num_waypoints_ahead, ExhaustedTargetSpeed)
             /\ cycle' = [cyc5 EXCEPT !.outcome = "exhausted",
                                      !.target_speed = ExhaustedTargetSpeed]
             ELSE
             \E speed_factor \in SpeedFactors :
                 LET target_speed == TargetSpeed(speed_factor) IN
                 /\ sent_waypoints' = slice_waypoints(
                        path, 0, num_waypoints_ahead, target_speed)
                 /\ cycle' = [cyc5 EXCEPT
                        !.outcome = "planned",
                        !.policy_distance = distance_since_last_full_stop,
                        !.speed_factor = speed_factor,
                        !.target_speed = target_speed]

on_watermark ==
    /\ raised = NoError
    /\ watermark_cnt < MaxWatermarks
    /\ Cycle(FALSE)

Next ==
    \/ on_pose_update
    \/ on_traffic_light_update
    \/ on_prediction_update
    \/ on_global_trajectory
    \/ on_opendrive_map
    \/ on_watermark

Spec == Init /\ [][Next]_vars

(***************************************************************************)
(* The operator fed by channels that deliver one message per logical time, *)
(* in logical-time order and without gaps, each channel up to MaxBacklog   *)
(* messages ahead of the barrier; the barrier of a logical time comes once *)
(* every channel has delivered its message of that time.                   *)
(***************************************************************************)
MaxBarriers == 2
MaxBacklog == 2

ChannelPoseMessages == {[forward_speed |-> 5, location |-> 0],
                        [forward_speed |-> 8, location |-> 12]}
ChannelObstacleMessages == ObstacleMessagesOf(ObstacleLists)

\* the message with the logical time it was sent for
Tagged(msg, timestamp) ==
    [f \in DOMAIN msg \cup {"timestamp"} |->
        IF f = "timestamp" THEN timestamp ELSE msg[f]]

\* the logical time of the next message of a channel
NextTimestamp(deque) == watermark_cnt + Len(deque)

deliver_pose ==
    /\ raised = NoError
    /\ Len(pose_msgs) < MaxBacklog
    /\ \E msg \in ChannelPoseMessages :
           pose_msgs' = Append(pose_msgs, Tagged(msg, NextTimestamp(pose_msgs)))
    /\ UNCHANGED <<watermark_cnt, traffic_light_msgs, prediction_msgs,
                   last_stop_ego_location, waypoints, map, goal_location,
                   waypoints_stream, sent_waypoints, raised,
                   had_map_and_goal, cycle>>

deliver_traffic_lights ==
    /\ raised = NoError
    /\ Len(traffic_light_msgs) < MaxBacklog
    /\ traffic_light_msgs' =
           Append(traffic_light_msgs,
                  Tagged(TrafficLightMessage, NextTimestamp(traffic_light_msgs)))
    /\ UNCHANGED <<watermark_cnt, pose_msgs, prediction_msgs,
                   last_stop_ego_location, waypoints, map, goal_location,
                   waypoints_stream, sent_waypoints, raised,
                   had_map_and_goal, cycle>>

deliver_obstacles ==
    /\ raised = NoError
    /\ Len(prediction_msgs) < MaxBacklog
    /\ \E msg \in ChannelObstacleMessages :
           prediction_msgs' =
               Append(prediction_msgs, Tagged(msg, NextTimestamp(prediction_msgs)))
    /\ UNCHANGED <<watermark_cnt, pose_msgs, traffic_light_msgs,
                   last_stop_ego_location, waypoints, map, goal_location,
                   waypoints_stream, sent_waypoints, raised,
                   had_map_and_goal, cycle>>

on_barrier ==
    /\ raised = NoError
    /\ watermark_cnt < MaxBarriers
    /\ pose_msgs # <<>>
    /\ traffic_light_msgs # <<>>
    /\ prediction_msgs # <<>>
    /\ Cycle(TRUE)

NextChannels ==
    \/ deliver_pose
    \/ deliver_traffic_lights
    \/ deliver_obstacles
    \/ on_global_trajectory
    \/ on_opendrive_map
    \/ on_barrier

SpecChannels == Init /\ [][NextChannels]_vars

(***************************************************************************)
(* Vocabulary of the properties.                                           *)
(***************************************************************************)
Completed == {"no_trajectory", "planned", "exhausted"}
Aborted == {"IndexError", "ValueError"}

\* the step is a call of on_watermark
WatermarkStep == watermark_cnt' # watermark_cnt

\* the queues hold what a barrier requires
InputsReady ==
    /\ pose_msgs # <<>>
    /\ traffic_light_msgs # <<>>
    /\ prediction_msgs # <<>>
    /\ Head(prediction_msgs).kind \in {"ObstaclesMessage", "PredictionMessage"}

\* positions of the messages of a type and a timestamp in the output stream
Positions(type, timestamp) ==
    {i \in 1..Len(waypoints_stream) :
        /\ waypoints_stream[i].type = type
        /\ waypoints_stream[i].timestamp = timestamp}

\* what the output stream holds for a timestamp, oldest first
SentAt(timestamp) ==
    SelectSeq(waypoints_stream, LAMBDA m : m.timestamp = timestamp)

\* the timestamps whose cycle ran to its end
CompletedTimestamps ==
    {t \in 0..(watermark_cnt - 1) : ~(raised # NoError /\ t = watermark_cnt - 1)}

\* the output stream ends with the message and the marker of a timestamp
EndsWithCycleOf(stream, timestamp) ==
    /\ Len(stream) >= 2
    /\ stream[Len(stream) - 1] = WaypointsMessage(timestamp)
    /\ stream[Len(stream)] = WatermarkMessage(timestamp)

\* C1: every logical time whose cycle ran to its end, by whichever path
\* (no map or goal, exhausted path, normal), has exactly one waypoints
\* message and exactly one watermark on the output stream, the message first.
C1_OneMessageThenOneMarker ==
    \A t \in CompletedTimestamps :
        SentAt(t) = <<WaypointsMessage(t), WatermarkMessage(t)>>

C1_Witness ==
    /\ cycle.outcome = "exhausted"
    /\ watermark_cnt >= 3
    /\ Len(waypoints_stream) = 2 * watermark_cnt
    /\ EndsWithCycleOf(waypoints_stream, cycle.timestamp)

\* the latest cycle invoked recompute_waypoints
Recomputed(c) == c.first_recompute \/ c.periodic_recompute

\* C2 as stated: recompute_waypoints is invoked on the cycles whose counter
\* value is 5, 10, 15, ... and on the first cycle at which map and goal are
\* both present, and on no other cycle.
C2_Original ==
    cycle.outcome \in Completed =>
        (Recomputed(cycle) <=>
            \/ watermark_cnt % RECOMPUTE_WAYPOINT_EVERY_N_WATERMARKS = 0
            \/ cycle.first_recompute)

\* C2 amended: a cycle invokes recompute_waypoints exactly when it runs to
\* its end with map and goal both present and either no earlier completed
\* cycle had both (the first such cycle) or its counter value is a multiple
\* of 5; a cycle numbered 5, 10, ... that runs without map or goal, or that
\* aborts, invokes none.
C2_RecomputeOnlyWithMapAndGoal ==
    [][WatermarkStep =>
        LET ready == map # NoMap /\ goal_location # None
            first == ready /\ ~had_map_and_goal
            due   == watermark_cnt' % RECOMPUTE_WAYPOINT_EVERY_N_WATERMARKS = 0
        IN IF cycle'.outcome \in Completed
           THEN /\ cycle'.first_recompute <=> first
                /\ cycle'.periodic_recompute <=> (ready /\ due)
           ELSE ~Recomputed(cycle')]_vars

C2_Witness ==
    /\ watermark_cnt = 10
    /\ cycle.outcome = "planned"
    /\ cycle.periodic_recompute
    /\ ~cycle.first_recompute

\* C3: the distance since the last full stop is 0 in a cycle whose forward
\* speed is below 0.08; from one cycle to the next, if the speed is at least
\* 0.08 and the vehicle is no closer to the recorded stop location than it was
\* in the cycle before, the distance does not decrease.
C3_StopDistanceResetLaw ==
    [][(WatermarkStep /\ cycle'.distance # None) =>
        /\ cycle'.forward_speed < StopSpeedThreshold => cycle'.distance = 0
        /\ ( /\ cycle'.forward_speed >= StopSpeedThreshold
             /\ cycle.distance # None
             /\ last_stop_ego_location # None =>
                    Distance(cycle'.location, last_stop_ego_location)
                        >= Distance(cycle.location, last_stop_ego_location) )
           => cycle'.distance >= cycle.distance]_vars

C3_Witness ==
    /\ cycle.outcome \in Completed
    /\ cycle.forward_speed = 8
    /\ cycle.distance = 12
    /\ last_stop_ego_location = 0
    /\ watermark_cnt >= 3

\* C4: the distance since the last stop is never negative; a cycle whose
\* forward speed is below 0.08 sets it to 0 and records the stop; a cycle
\* whose forward speed is 0.08 or more records no stop.
C4_DistanceNonNegativeResetBelowThreshold ==
    [][(WatermarkStep /\ cycle'.distance # None) =>
        /\ cycle'.distance >= 0
        /\ IF cycle'.forward_speed < StopSpeedThreshold
           THEN cycle'.distance = 0 /\ last_stop_ego_location' = cycle'.location
           ELSE last_stop_ego_location' = last_stop_ego_location]_vars

C4_Witness ==
    /\ cycle.outcome \in Completed
    /\ cycle.forward_speed = StopSpeedThreshold
    /\ cycle.distance = 6
    /\ cycle.location = 12
    /\ last_stop_ego_location = 6

\* C5: without a goal location, a cycle that finds its three inputs sends an
\* empty waypoints message, no waypoint of which has a target speed other than
\* 0, then the watermark, and raises nothing.
C5_NoGoalEmptyHorizon ==
    [][(WatermarkStep /\ goal_location = None /\ InputsReady) =>
        /\ raised' = NoError
        /\ cycle'.outcome = "no_trajectory"
        /\ sent_waypoints'.waypoints = <<>>
        /\ \A i \in DOMAIN sent_waypoints'.target_speeds :
               sent_waypoints'.target_speeds[i] = 0
        /\ waypoints_stream' = waypoints_stream \o
               <<WaypointsMessage(watermark_cnt), WatermarkMessage(watermark_cnt)>>]_vars

C5_Witness ==
    /\ goal_location = None
    /\ map # NoMap
    /\ cycle.outcome = "no_trajectory"
    /\ watermark_cnt >= 2
    /\ EndsWithCycleOf(waypoints_stream, cycle.timestamp)

\* C6: in a cycle whose lookahead finds no waypoint far enough ahead, the
\* stopping policy is not invoked, the target speed is 0, the message carries
\* slice_waypoints(0, num_waypoints_ahead, 0) of the pruned path, and the
\* cycle ends with the message and the watermark without raising.
C6_ExhaustedPathFallback ==
    ( /\ cycle.outcome \in {"planned", "exhausted"}
      /\ LookaheadFails(waypoints.waypoints, cycle.location,
                        min_pid_steer_waypoint_distance) )
    => /\ cycle.policy_distance = None
       /\ cycle.speed_factor = None
       /\ cycle.target_speed = 0
       /\ sent_waypoints =
              slice_waypoints(waypoints.waypoints, 0, num_waypoints_ahead, 0)
       /\ raised = NoError
       /\ EndsWithCycleOf(waypoints_stream, cycle.timestamp)

C6_Witness ==
    /\ cycle.outcome = "exhausted"
    /\ cycle.location = 12
    /\ waypoints.waypoints = <<15>>
    /\ sent_waypoints = [waypoints |-> <<15>>, target_speeds |-> <<0>>]

\* C7: a barrier that finds the pose, traffic-light or obstacle queue empty,
\* or an obstacle item of an unknown class, raises and sends nothing.
C7_ContractViolationAborts ==
    [][(WatermarkStep /\ ~InputsReady) =>
        /\ raised' \in Aborted
        /\ raised' = "ValueError" <=>
               (pose_msgs # <<>> /\ traffic_light_msgs # <<>>
                    /\ prediction_msgs # <<>>)
        /\ waypoints_stream' = waypoints_stream]_vars

C7_Witness ==
    /\ raised = "ValueError"
    /\ watermark_cnt >= 2
    /\ Positions("WaypointsMessage", cycle.timestamp) = {}
    /\ Positions("WatermarkMessage", cycle.timestamp) = {}

\* C8: a waypoints message carries at most num_waypoints_ahead waypoints, all
\* with the one target speed of the cycle, which is 0 or speed_factor times
\* the nominal target speed with speed_factor between 0 and 1, hence not
\* negative.
C8_BoundedHorizonOneSpeed ==
    cycle.outcome \in Completed =>
        /\ Len(sent_waypoints.waypoints) <= num_waypoints_ahead
        /\ Len(sent_waypoints.target_speeds) = Len(sent_waypoints.waypoints)
        /\ cycle.outcome = "no_trajectory" => sent_waypoints.waypoints = <<>>
        /\ cycle.outcome # "no_trajectory" =>
              /\ \A i \in DOMAIN sent_waypoints.target_speeds :
                     sent_waypoints.target_speeds[i] = cycle.target_speed
              /\ cycle.target_speed >= 0
              /\ \/ cycle.target_speed = 0 /\ cycle.outcome = "exhausted"
                 \/ /\ cycle.speed_factor \in 0..100
                    /\ cycle.target_speed = cycle.speed_factor * target_speed_flag

C8_Witness ==
    /\ cycle.outcome = "planned"
    /\ cycle.speed_factor = 50
    /\ sent_waypoints = [waypoints |-> <<3, 6>>, target_speeds |-> <<500, 500>>]

\* C9: the path is uninitialized until the first completed cycle with map and
\* goal both present; a completed cycle that leaves it uninitialized sent the
\* empty path; once initialized it is never uninitialized again and no later
\* cycle takes the branch without map or goal.
C9_PathLifecycle ==
    /\ [](waypoints.is_none <=> ~had_map_and_goal)
    /\ []((cycle.outcome \in Completed /\ waypoints.is_none) =>
             (cycle.outcome = "no_trajectory" /\ sent_waypoints = EmptyWaypoints))
    /\ [][~waypoints.is_none =>
             (~waypoints'.is_none /\
              (WatermarkStep => cycle'.outcome # "no_trajectory"))]_vars

C9_Witness ==
    /\ ~waypoints.is_none
    /\ waypoints.waypoints = <<>>
    /\ map = "no_route"
    /\ cycle.outcome = "exhausted"
    /\ ~cycle.first_recompute
    /\ watermark_cnt >= 6

\* C10: a cycle with forward speed below 0.08 records the current location as
\* the stop location and has distance 0; any other cycle leaves the stop
\* location as it was and has the distance from it to the current location, 0
\* if there is none; a recorded stop location never becomes none again; the
\* stopping policy, when invoked, is given that distance.
C10_StopTrackingUpdate ==
    [][/\ last_stop_ego_location # None => last_stop_ego_location' # None
       /\ (WatermarkStep /\ pose_msgs # <<>>) =>
            LET pose_msg == Head(pose_msgs) IN
            /\ IF pose_msg.forward_speed < StopSpeedThreshold
               THEN /\ last_stop_ego_location' = pose_msg.location
                    /\ cycle'.distance = 0
               ELSE /\ last_stop_ego_location' = last_stop_ego_location
                    /\ cycle'.distance =
                          IF last_stop_ego_location # None
                          THEN Distance(pose_msg.location, last_stop_ego_location)
                          ELSE 0
            /\ cycle'.outcome = "planned" =>
                   cycle'.policy_distance = cycle'.distance]_vars

C10_Witness ==
    /\ cycle.outcome = "planned"
    /\ cycle.forward_speed >= StopSpeedThreshold
    /\ cycle.location = 0
    /\ last_stop_ego_location = 12
    /\ cycle.policy_distance = 12

(***************************************************************************)
(* Properties of the channel-fed operator and of the calls of a cycle.     *)
(***************************************************************************)
\* the latest cycle made this call
Called(calls, name) == \E i \in 1..Len(calls) : calls[i] = name

\* how often the latest cycle made this call
CallCount(calls, name) == Len(SelectSeq(calls, LAMBDA c : c = name))

\* C11: every cycle that does not abort removes exactly one item, the
\* oldest, from each of the pose, traffic-light and obstacle queues; with
\* channels that deliver one item per logical time in logical-time order
\* before the barrier of that time, the three items consumed at barrier T
\* are the ones tagged T, and queues that held exactly the item of T are
\* empty after the cycle.
C11_FifoBarrierSynchronization ==
    [][(WatermarkStep /\ cycle'.outcome \in Completed) =>
          /\ pose_msgs # <<>> /\ pose_msgs' = Tail(pose_msgs)
          /\ traffic_light_msgs # <<>>
          /\ traffic_light_msgs' = Tail(traffic_light_msgs)
          /\ prediction_msgs # <<>> /\ prediction_msgs' = Tail(prediction_msgs)
          /\ cycle'.popped = <<Head(pose_msgs), Head(traffic_light_msgs),
                               Head(prediction_msgs)>>
          /\ \A i \in 1..3 : cycle'.popped[i].timestamp = cycle'.timestamp
          /\ (Len(pose_msgs) = 1 /\ Len(traffic_light_msgs) = 1
                /\ Len(prediction_msgs) = 1) =>
                 /\ pose_msgs' = <<>>
                 /\ traffic_light_msgs' = <<>>
                 /\ prediction_msgs' = <<>>]_vars

C11_Witness ==
    /\ cycle.outcome = "planned"
    /\ watermark_cnt = 2
    /\ Len(cycle.popped) = 3
    /\ \A i \in 1..3 : cycle.popped[i].timestamp = 1
    /\ Len(pose_msgs) = 1
    /\ pose_msgs[1].timestamp = 2
    /\ traffic_light_msgs = <<>>

\* C12: a cycle that fell back to target speed 0 because the lookahead
\* failed stores nothing that decides the next cycle: the cycle after an
\* exhausted one is exhausted or planned by the lookahead on its own pruned
\* path alone, and when the lookahead succeeds its target speed is the speed
\* factor of the policy times the nominal target speed.
C12_ExhaustedIsTransient ==
    (cycle.previous = "exhausted" /\ cycle.outcome \in Completed) =>
        IF LookaheadFails(waypoints.waypoints, cycle.location,
                          min_pid_steer_waypoint_distance)
        THEN /\ cycle.outcome = "exhausted"
             /\ cycle.target_speed = 0
        ELSE /\ cycle.outcome = "planned"
             /\ cycle.speed_factor \in SpeedFactors
             /\ cycle.target_speed = cycle.speed_factor * target_speed_flag
             /\ \A i \in 1..Len(sent_waypoints.target_speeds) :
                    sent_waypoints.target_speeds[i] = cycle.target_speed

C12_Witness ==
    /\ cycle.previous = "exhausted"
    /\ cycle.outcome = "planned"
    /\ cycle.speed_factor = 100
    /\ cycle.target_speed = 100 * target_speed_flag
    /\ sent_waypoints.waypoints # <<>>

\* the step of the cycle a call belongs to: inputs, recompute, prune,
\* lookahead, policy, emission
StepOf(call) ==
    CASE call \in {"pose_msgs.popleft", "traffic_light_msgs.popleft",
                   "prediction_msgs.popleft",
                   "predictions_to_world_coordinates"} -> 1
      [] call = "recompute_waypoints" -> 2
      [] call = "remove_completed" -> 3
      [] call \in {"get_vector", "get_angle"} -> 4
      [] call = "stop_for_agents" -> 5
      [] call \in {"slice_waypoints", "send WaypointsMessage",
                   "send WatermarkMessage"} -> 6

\* C13: cycles do not overlap and follow the fixed step order: in a cycle
\* that is not degenerate the three pops and the normalization come before
\* any recompute, recompute before remove_completed, remove_completed before
\* the lookahead queries, these before the policy call and the policy call
\* before the emission; on the output stream the message and the marker of
\* a logical time both come before anything of a later logical time.
C13_NoOverlapFixedStepOrder ==
    /\ cycle.outcome \in {"planned", "exhausted"} =>
           /\ \A i, j \in 1..Len(cycle.calls) :
                  i < j => StepOf(cycle.calls[i]) <= StepOf(cycle.calls[j])
           /\ SubSeq(cycle.calls, 1, 3) =
                  <<"pose_msgs.popleft", "traffic_light_msgs.popleft",
                    "prediction_msgs.popleft">>
           /\ CallCount(cycle.calls, "remove_completed") = 1
           /\ CallCount(cycle.calls, "get_vector") = 1
           /\ cycle.outcome = "planned" <=> Called(cycle.calls, "stop_for_agents")
           /\ SubSeq(cycle.calls, Len(cycle.calls) - 1, Len(cycle.calls)) =
                  <<"send WaypointsMessage", "send WatermarkMessage">>
    /\ \A k \in 1..(Len(waypoints_stream) \div 2) :
           /\ waypoints_stream[2 * k - 1] = WaypointsMessage(k - 1)
           /\ waypoints_stream[2 * k] = WatermarkMessage(k - 1)
    /\ Len(waypoints_stream) % 2 = 0

C13_Witness ==
    /\ cycle.outcome = "planned"
    /\ cycle.first_recompute
    /\ watermark_cnt = 2
    /\ Len(waypoints_stream) = 4
    /\ cycle.calls =
           <<"pose_msgs.popleft", "traffic_light_msgs.popleft",
             "prediction_msgs.popleft", "predictions_to_world_coordinates",
             "recompute_waypoints", "remove_completed", "get_vector",
             "get_angle", "stop_for_agents", "slice_waypoints",
             "send WaypointsMessage", "send WatermarkMessage">>

\* C14: the obstacles are normalized to world coordinates exactly when the
\* popped obstacle item is a PredictionMessage, and taken as they are when
\* it is an ObstaclesMessage; when normalized, the transform of every
\* obstacle and every point of its predicted trajectory is the ego
\* transform composed with the relative one, the obstacles keep their number
\* and order, and an empty prediction list gives an empty result.
C14_ObstacleShapeDispatch ==
    (cycle.outcome \in Completed /\ Len(cycle.popped) = 3) =>
        LET obstacles_msg == cycle.popped[3]
            given == obstacles_msg.predictions
            ego_transform == cycle.location
            obstacles == cycle.obstacles
        IN
        /\ Called(cycle.calls, "predictions_to_world_coordinates")
               <=> obstacles_msg.kind = "PredictionMessage"
        /\ obstacles_msg.kind = "ObstaclesMessage" =>
               obstacles = obstacles_msg.obstacles
        /\ obstacles_msg.kind = "PredictionMessage" =>
               /\ Len(obstacles) = Len(given)
               /\ given = <<>> => obstacles = <<>>
               /\ \A i \in 1..Len(given) :
                      /\ obstacles[i].transform =
                             Compose(ego_transform, given[i].transform)
                      /\ Len(obstacles[i].predicted_trajectory) =
                             Len(given[i].predicted_trajectory)
                      /\ \A j \in 1..Len(given[i].predicted_trajectory) :
                             obstacles[i].predicted_trajectory[j] =
                                 Compose(ego_transform,
                                         given[i].predicted_trajectory[j])

C14_Witness ==
    /\ cycle.outcome \in Completed
    /\ Len(cycle.popped) = 3
    /\ cycle.popped[3].kind = "PredictionMessage"
    /\ cycle.location = 12
    /\ Len(cycle.obstacles) = 2
    /\ cycle.obstacles[1] = ObstaclePrediction(13, <<14, 15>>)
    /\ cycle.obstacles[2] = ObstaclePrediction(16, <<>>)

\* C15: predictions_to_world_coordinates is a pure function: it leaves the
\* prediction objects it was given unchanged, so that applying it again to
\* the same input with the same ego transform gives the same world-frame
\* result.
C15_NormalizerIsPure ==
    (cycle.outcome \in Completed /\ Len(cycle.popped) = 3
        /\ cycle.popped[3].kind = "PredictionMessage") =>
        /\ cycle.predictions_after = cycle.popped[3].predictions
        /\ predictions_to_world_coordinates(cycle.location, cycle.predictions_after)
               = cycle.obstacles

\* the barriers on_watermark has received: two sends for each cycle that
\* ran to its end, and the barrier of the cycle that aborted
BarriersReceived ==
    (Len(waypoints_stream) \div 2) + (IF raised # NoError THEN 1 ELSE 0)

\* C16: the cycle counter goes up by exactly 1 with each barrier on_watermark
\* receives, the degenerate cycles that emit the empty path before map and
\* goal are there included, so that it counts the barriers since the start
\* of the operator and the periodic recomputation falls on the barriers
\* numbered 5, 10, ... since the start.
C16_CounterCountsEveryBarrier ==
    /\ watermark_cnt = BarriersReceived
    /\ cycle.outcome # "none" => watermark_cnt = cycle.timestamp + 1
    /\ cycle.periodic_recompute =>
           BarriersReceived % RECOMPUTE_WAYPOINT_EVERY_N_WATERMARKS = 0

C16_Witness ==
    /\ watermark_cnt = 5
    /\ Len(waypoints_stream) = 10
    /\ cycle.first_recompute
    /\ cycle.periodic_recompute

\* C17: in a cycle where the path is uninitialized and map or goal is
\* absent, the path store stays uninitialized and neither
\* recompute_waypoints, remove_completed, the lookahead queries nor the
\* stopping policy is invoked, while the cycle consumes one item of each of
\* the three queues, increments the cycle counter and updates the
\* stop-tracking state.
C17_DegenerateCycleFrame ==
    [][(/\ WatermarkStep
        /\ cycle'.outcome \in Completed
        /\ waypoints.is_none
        /\ (map = NoMap \/ goal_location = None)) =>
          /\ cycle'.outcome = "no_trajectory"
          /\ waypoints' = waypoints
          /\ \A name \in {"recompute_waypoints", "remove_completed",
                          "get_vector", "get_angle", "stop_for_agents"} :
                 ~Called(cycle'.calls, name)
          /\ pose_msgs' = Tail(pose_msgs)
          /\ traffic_light_msgs' = Tail(traffic_light_msgs)
          /\ prediction_msgs' = Tail(prediction_msgs)
          /\ watermark_cnt' = watermark_cnt + 1
          /\ last_stop_ego_location' =
                 IF Head(pose_msgs).forward_speed < StopSpeedThreshold
                 THEN Head(pose_msgs).location
                 ELSE last_stop_ego_location]_vars

C17_Witness ==
    /\ cycle.outcome = "no_trajectory"
    /\ watermark_cnt = 2
    /\ waypoints.is_none
    /\ map # NoMap
    /\ goal_location = None
    /\ cycle.forward_speed = 5
    /\ cycle.location = 6
    /\ last_stop_ego_location = 6

\* C18: recompute_waypoints is invoked at most once in any single cycle,
\* the cycle that first initializes the path at a counter value that is a
\* multiple of 5 included.
C18_RecomputeAtMostOncePerCycle ==
    CallCount(cycle.calls, "recompute_waypoints") <= 1

\* C19: recompute_waypoints is only ever invoked with map and goal both
\* present, and remove_completed, get_vector, get_angle and slice_waypoints
\* only on a path that is initialized, before the barrier or earlier in the
\* cycle, whenever map and goal arrive between the cycles.
C19_PathCallsOnlyWhenInitialized ==
    [][WatermarkStep =>
          LET calls == cycle'.calls IN
          /\ Called(calls, "recompute_waypoints") =>
                 (map # NoMap /\ goal_location # None)
          /\ \A i \in 1..Len(calls) :
                 calls[i] \in {"remove_completed", "get_vector", "get_angle",
                               "slice_waypoints"} =>
                     /\ \/ ~waypoints.is_none
                        \/ /\ cycle'.first_recompute
                           /\ \E j \in 1..(i - 1) :
                                  calls[j] = "recompute_waypoints"
                     /\ ~waypoints'.is_none]_vars

C19_Witness ==
    /\ cycle.outcome = "planned"
    /\ cycle.first_recompute
    /\ watermark_cnt = 3
    /\ ~waypoints.is_none
    /\ map = "route"
    /\ goal_location # None
    /\ Called(cycle.calls, "slice_waypoints")

\* the step is a call of on_watermark that an exception leaves
AbortStep == raised = NoError /\ raised' # NoError

\* C20 as stated: a cycle that aborts with a fatal contract violation
\* leaves cycle counter, the three input queues, recorded stop location and
\* stored path as they were before the barrier.
C20_Original ==
    [][AbortStep =>
          UNCHANGED <<watermark_cnt, pose_msgs, traffic_light_msgs,
                      prediction_msgs, last_stop_ego_location,
                      waypoints>>]_vars

\* C20 amended: a cycle that aborts leaves the stored path, map, goal and
\* output stream as they were, but not the rest: the counter is incremented,
\* every queue read before the failing step has lost its oldest item, and
\* the stop location is updated from the pose when the pose was popped.
C20_AbortKeepsPathAndOutput ==
    [][AbortStep =>
          /\ watermark_cnt' = watermark_cnt + 1
          /\ UNCHANGED <<waypoints, map, goal_location, waypoints_stream,
                         sent_waypoints>>
          /\ IF pose_msgs = <<>>
             THEN /\ raised' = "IndexError"
                  /\ UNCHANGED <<pose_msgs, traffic_light_msgs,
                                 prediction_msgs, last_stop_ego_location>>
             ELSE
             /\ pose_msgs' = Tail(pose_msgs)
             /\ last_stop_ego_location' =
                    IF Head(pose_msgs).forward_speed < StopSpeedThreshold
                    THEN Head(pose_msgs).location
                    ELSE last_stop_ego_location
             /\ IF traffic_light_msgs = <<>>
                THEN /\ raised' = "IndexError"
                     /\ UNCHANGED <<traffic_light_msgs, prediction_msgs>>
                ELSE
                /\ traffic_light_msgs' = Tail(traffic_light_msgs)
                /\ IF prediction_msgs = <<>>
                   THEN /\ raised' = "IndexError"
                        /\ UNCHANGED prediction_msgs
                   ELSE /\ raised' = "ValueError"
                        /\ Head(prediction_msgs).kind = "Other"
                        /\ prediction_msgs' = Tail(prediction_msgs)]_vars

C20_Witness ==
    /\ raised = "IndexError"
    /\ watermark_cnt = 3
    /\ Len(waypoints_stream) = 4
    /\ pose_msgs = <<>>
    /\ traffic_light_msgs = <<>>
    /\ prediction_msgs # <<>>
    /\ cycle.forward_speed = 5
    /\ cycle.location = 6
    /\ last_stop_ego_location = 6
====
